---- MODULE Spec2Model ----
(***************************************************************************)
(* A model of app.js, the browser-side price widget: the request / render  *)
(* / refresh cycle of fetchAndRenderPrice, the rolling chart history, the  *)
(* auto-refresh interval timer and the portfolio value calculator.         *)
(*                                                                         *)
(* JavaScript values are modelled as follows.  A number is an integer      *)
(* count of hundredths (61234.56 is 6123456); the product of two numbers   *)
(* is a count of ten-thousandths.  A value is a record [t, v]: t its type  *)
(* ("number", "null", "undefined", "NaN"), v the count when t = "number".  *)
(* A text typed into the amount field is a tuple of one-character strings. *)
(* An element's content is a record whose "kind" names which of the code's *)
(* templates produced it, with the strings the template interpolates.      *)
(***************************************************************************)
EXTENDS Integers, Sequences, FiniteSets, TLC

VARIABLES
    selected,              \* assetSelect.value
    buttonDisabled,        \* loadButton.disabled
    buttonText,            \* loadButton.textContent
    resultBox,             \* resultBox.innerHTML
    autoRefreshIntervalId, \* app.js:22
    timers,                \* the browser's active interval timers: id -> ms until it fires
    priceChart,            \* app.js:25, the Chart instance's data and title, or null
    chartLabels,           \* app.js:26
    chartValuesEur,        \* app.js:27
    chartValuesUsd,        \* app.js:28
    lastEurPrice,          \* app.js:32
    lastUsdPrice,          \* app.js:33
    amountValue,           \* #portfolio-amount .value
    portfolioResult,       \* #portfolio-result content
    inflight,              \* the suspended invocations of fetchAndRenderPrice: id -> record
    issued,                \* how many invocations of fetchAndRenderPrice have started
    now,                   \* the wall clock, minutes since midnight (what formatTime reads)
    minutes,               \* how many minutes the wall clock has advanced
    sinceTick,             \* history: ms since the last timer-initiated fetch started,
                           \* up to RefreshIntervalMs (kept by the runs that track it)
    lastDone,              \* history: how the invocation that finished last ended
    successLog,            \* history: the samples of the successful fetches, in order
    uncaught               \* history: an exception escaped fetchAndRenderPrice

vars == <<selected, buttonDisabled, buttonText, resultBox,
          autoRefreshIntervalId, timers, priceChart, chartLabels, chartValuesEur,
          chartValuesUsd, lastEurPrice, lastUsdPrice, amountValue, portfolioResult,
          inflight, issued, now, minutes, sinceTick, lastDone,
          successLog, uncaught>>

(***************************************************************************)
(* Bounds of the model.                                                    *)
(***************************************************************************)
\* invocations of fetchAndRenderPrice in a run of Spec (the page-load one included)
MaxFetches == 3
\* invocations of fetchAndRenderPrice in a run of SpecLong
LongFetches == 22
\* invocations outstanding at once in a run of SpecLong
LongOutstanding == 1
\* requests that fail in a run of SpecLong
LongFailures == 1
\* interval timers the browser lets be active at once
MaxTimers == 2
\* time advances in steps of RefreshIntervalMs \div StepsPerInterval
StepsPerInterval == 2
\* minutes the wall clock advances in a run
MaxMinutes == 1

(***************************************************************************)
(* Program constants.                                                      *)
(***************************************************************************)
MAX_POINTS == 20
RefreshIntervalMs == 30000
\* autoRefreshIntervalId = null; the handles setInterval returns are positive
NullId == 0

\* JavaScript values: [t |-> type, v |-> hundredths (0 unless t = "number")]
Num(n) == [t |-> "number", v |-> n]
Null == [t |-> "null", v |-> 0]
Undefined == [t |-> "undefined", v |-> 0]
NaN == [t |-> "NaN", v |-> 0]

\* The selectable assets: the option values of #asset-select, first one the default.
Assets == {"bitcoin", "ethereum"}
DefaultAsset == "bitcoin"
\* selectedOption.textContent of the option whose value is a
OptionLabel(a) == IF a = "bitcoin" THEN "Bitcoin (BTC)" ELSE "Ethereum (ETH)"

\* The page has the chart canvas and the Chart library, and the portfolio elements.
chartCanvasPresent == TRUE
portfolioElementsPresent == TRUE

TimeStepMs == RefreshIntervalMs \div StepsPerInterval
MinutesPerDay == 24 * 60
\* the wall clock when the page loads: 23:59
NowAtLoad == MinutesPerDay - 1

(***************************************************************************)
(* Pure helpers.                                                           *)
(***************************************************************************)
IsNumber(x) == x.t = "number"

Abs(n) == IF n < 0 THEN -n ELSE n

\* String(n).padStart(2, "0") for 0 <= n
Pad2(n) == IF n < 10 THEN "0" \o ToString(n) ELSE ToString(n)

\* app.js:36-40; date is minutes since midnight
formatTime(date) ==
    LET hours == Pad2(date \div 60)
        mins == Pad2(date % 60)
    IN  hours \o ":" \o mins

\* x.toFixed(2) for x a number or NaN, x.v counting 1/scale (scale 100 or 10000):
\* the nearest count of hundredths, halves away from zero, the sign first.
ToFixed2(x, scale) ==
    IF ~IsNumber(x) THEN "NaN"
    ELSE LET unit == scale \div 100
             q == (Abs(x.v) + unit \div 2) \div unit
         IN  (IF x.v < 0 THEN "-" ELSE "") \o ToString(q \div 100) \o "." \o Pad2(q % 100)

\* a * b for a a number: a number counting ten-thousandths, or NaN (b undefined)
Times(a, b) == IF IsNumber(a) /\ IsNumber(b) THEN Num(a.v * b.v) ELSE NaN

\* app.js:4-13; URLSearchParams.toString() percent-encodes the comma
buildApiUrl(assetId) ==
    "https://api.coingecko.com/api/v3/simple/price?"
        \o "ids=" \o assetId
        \o "&vs_currencies=eur%2Cusd"
        \o "&include_24hr_change=true"

(***************************************************************************)
(* parseFloat, on a tuple of characters: leading blanks, a sign, digits, a *)
(* point and digits; the longest such prefix is the number, what follows   *)
(* it is ignored, and there is NaN when the prefix holds no digit.  The    *)
(* result counts hundredths (the third and later decimals are dropped;     *)
(* AmountValues holds no text with more than two).                         *)
(***************************************************************************)
DigitChars == <<"0", "1", "2", "3", "4", "5", "6", "7", "8", "9">>
IsDigit(c) == \E i \in 1..Len(DigitChars) : DigitChars[i] = c
DigitVal(c) == (CHOOSE i \in 1..Len(DigitChars) : DigitChars[i] = c) - 1

RECURSIVE SkipBlanks(_, _)
SkipBlanks(s, i) == IF i <= Len(s) /\ s[i] = " " THEN SkipBlanks(s, i + 1) ELSE i

RECURSIVE DigitRun(_, _)
DigitRun(s, i) == IF i <= Len(s) /\ IsDigit(s[i]) THEN 1 + DigitRun(s, i + 1) ELSE 0

RECURSIVE DigitsValue(_, _, _)
DigitsValue(s, i, n) ==
    IF n = 0 THEN 0 ELSE 10 * DigitsValue(s, i, n - 1) + DigitVal(s[i + n - 1])

parseFloat(s) ==
    LET i0 == SkipBlanks(s, 1)
        signed == i0 <= Len(s) /\ s[i0] \in {"+", "-"}
        negative == signed /\ s[i0] = "-"
        i1 == IF signed THEN i0 + 1 ELSE i0
        nInt == DigitRun(s, i1)
        i2 == i1 + nInt
        nFrac == IF i2 <= Len(s) /\ s[i2] = "." THEN DigitRun(s, i2 + 1) ELSE 0
        tenths == IF nFrac >= 1 THEN DigitVal(s[i2 + 1]) ELSE 0
        hundredths == IF nFrac >= 2 THEN DigitVal(s[i2 + 2]) ELSE 0
        magnitude == 100 * DigitsValue(s, i1, nInt) + 10 * tenths + hundredths
    IN  IF nInt + nFrac = 0 THEN NaN
        ELSE Num(IF negative THEN -magnitude ELSE magnitude)

\* isNaN(x)
isNaN(x) == x.t \in {"NaN", "undefined"}

\* The texts the amount field holds in a run: empty, letters, zero, a negative
\* number, and two valid amounts.
AmountValues ==
    { <<>>, <<"a", "b", "c">>, <<"0">>, <<"-", "1">>, <<"0", ".", "5">>, <<"2">> }

(***************************************************************************)
(* The responses of the price API.  A parsed body maps each asset key to   *)
(* an entry; an entry with present = FALSE is a key the body does not      *)
(* hold, and a field that is Undefined is a field the entry does not hold. *)
(***************************************************************************)
Fields == {"eur", "usd", "eur_24h_change", "usd_24h_change"}

Entry(e, u, ec, uc) ==
    [present |-> TRUE, eur |-> e, usd |-> u, eur_24h_change |-> ec, usd_24h_change |-> uc]

AbsentEntry ==
    [present |-> FALSE, eur |-> Undefined, usd |-> Undefined,
     eur_24h_change |-> Undefined, usd_24h_change |-> Undefined]

\* 61234.56 EUR, 65432.10 USD, +1.25 %, -0.80 %
EntryA == Entry(Num(6123456), Num(6543210), Num(125), Num(-80))
\* 3000.10 EUR, 3200.00 USD, 0.00 %, +0.50 %
EntryB == Entry(Num(300010), Num(320000), Num(0), Num(50))

MalformedEntries == { [EntryA EXCEPT ![f] = Undefined] : f \in Fields }

\* the parsed bodies a request can get: under the key DefaultAsset EntryA, EntryA
\* less one field, or nothing; under the other keys EntryB or nothing
Payloads ==
    { d \in [Assets -> {EntryA, EntryB, AbsentEntry} \cup MalformedEntries] :
        /\ d[DefaultAsset] # EntryB
        /\ \A a \in Assets \ {DefaultAsset} : d[a] \in {AbsentEntry, EntryB} }

\* the parsed body the n-th successful request of a run of SpecLong gets
LongPayload(n) ==
    [a \in Assets |-> Entry(Num(100 * n), Num(100 * n + 50), Num(0), Num(-80))]

\* the HTTP statuses of a response; response.ok
Statuses == {200, 500}
responseOk(status) == 200 <= status /\ status <= 299

(***************************************************************************)
(* The contents the code writes into the page.                             *)
(***************************************************************************)
\* the page as served, before the script runs
EmptyBox == [kind |-> "empty"]
IdleButtonText == "Load latest price"
BusyButtonText == "Loading..."

\* app.js:75
LoadingBox(assetLabel) == [kind |-> "loading", label |-> assetLabel]

\* app.js:140-143
ErrorBox == [kind |-> "error", strong |-> "Could not load price.",
             muted |-> "Please try again in a moment."]

\* changeClass with `change > 0` for `change >= 0`
changeClass_StrictlyPositive(change) ==
    IF change.v > 0 THEN "change-positive" ELSE "change-negative"

\* app.js:111-112
changeClass(change) == IF change.v >= 0 THEN "change-positive" ELSE "change-negative"

\* app.js:108-130
PriceBox(assetLabel, eurPrice, usdPrice, eurChange, usdChange, formattedTime) ==
    [kind |-> "price", label |-> assetLabel,
     eur |-> ToFixed2(eurPrice, 100), eurChange |-> ToFixed2(eurChange, 100),
     eurClass |-> changeClass(eurChange),
     usd |-> ToFixed2(usdPrice, 100), usdChange |-> ToFixed2(usdChange, 100),
     usdClass |-> changeClass(usdChange),
     time |-> formattedTime]

\* app.js:327
LoadFirstText == [kind |-> "text", text |-> "Load the price first, then enter an amount."]
\* app.js:278
EnterAmountText == [kind |-> "text", text |-> "Enter amount to calculate value."]
\* #portfolio-result as served
NoPortfolioText == [kind |-> "text", text |-> ""]

\* updatePortfolioValue with `amount < 0` for `amount <= 0`
updatePortfolioValue_NegativeOnly(eurPrice, usdPrice, value, current) ==
    IF ~portfolioElementsPresent THEN current
    ELSE LET amount == parseFloat(value)
         IN  IF isNaN(amount) \/ amount.v < 0 THEN EnterAmountText
             ELSE [kind |-> "value",
                   eur |-> ToFixed2(Times(amount, eurPrice), 10000),
                   usd |-> ToFixed2(Times(amount, usdPrice), 10000)]

\* app.js:269-290: the content of #portfolio-result after updatePortfolioValue,
\* for the text `value` in the amount field and the content `current`
updatePortfolioValue(eurPrice, usdPrice, value, current) ==
    IF ~portfolioElementsPresent THEN current
    ELSE LET amount == parseFloat(value)
         IN  IF isNaN(amount) \/ amount.v <= 0 THEN EnterAmountText
             ELSE [kind |-> "value",
                   eur |-> ToFixed2(Times(amount, eurPrice), 10000),
                   usd |-> ToFixed2(Times(amount, usdPrice), 10000)]

(***************************************************************************)
(* The rolling chart history, app.js:157-243.                              *)
(***************************************************************************)
NoChart == [exists |-> FALSE, labels |-> <<>>, eur |-> <<>>, usd |-> <<>>, title |-> ""]

\* keepLast with pop() for shift(): the newest item is dropped
keepLast_DropsNewest(a) == IF Len(a) > MAX_POINTS THEN SubSeq(a, 1, MAX_POINTS) ELSE a

\* app.js:167-169: if (a.length > MAX_POINTS) a.shift()
keepLast(a) == IF Len(a) > MAX_POINTS THEN Tail(a) ELSE a

\* pushPoint with unshift() for push(): the new item goes to the front
pushPoint_Unshift(a, x) == keepLast(<<x>> \o a)

\* app.js:161-169: push, then keep only the last MAX_POINTS items
pushPoint(a, x) == keepLast(Append(a, x))

\* app.js:173
chartTitle(assetLabel) == assetLabel \o " - session prices (EUR & USD)"

\* updatePriceChart with the shift of app.js:167 only: the value sequences grow on
updatePriceChart_ShiftLabelsOnly(assetLabel, timeLabel, eurPrice, usdPrice) ==
    IF ~chartCanvasPresent
    THEN UNCHANGED <<chartLabels, chartValuesEur, chartValuesUsd, priceChart>>
    ELSE /\ chartLabels' = pushPoint(chartLabels, timeLabel)
         /\ chartValuesEur' = Append(chartValuesEur, eurPrice)
         /\ chartValuesUsd' = Append(chartValuesUsd, usdPrice)
         /\ priceChart' = [exists |-> TRUE, labels |-> chartLabels',
                           eur |-> chartValuesEur', usd |-> chartValuesUsd',
                           title |-> chartTitle(assetLabel)]

\* app.js:157-243
updatePriceChart(assetLabel, timeLabel, eurPrice, usdPrice) ==
    IF ~chartCanvasPresent
    THEN UNCHANGED <<chartLabels, chartValuesEur, chartValuesUsd, priceChart>>
    ELSE /\ chartLabels' = pushPoint(chartLabels, timeLabel)
         /\ chartValuesEur' = pushPoint(chartValuesEur, eurPrice)
         /\ chartValuesUsd' = pushPoint(chartValuesUsd, usdPrice)
         \* app.js:176-183 and 186-242: the chart shows the three sequences
         /\ priceChart' = [exists |-> TRUE, labels |-> chartLabels',
                           eur |-> chartValuesEur', usd |-> chartValuesUsd',
                           title |-> chartTitle(assetLabel)]

(***************************************************************************)
(* The auto-refresh scheduler, app.js:247-266, on the pair                 *)
(* s = [id |-> autoRefreshIntervalId, timers |-> the active timers].       *)
(***************************************************************************)
\* clearInterval(id)
clearInterval(ts, id) == [i \in DOMAIN ts \ {id} |-> ts[i]]

\* the handle setInterval returns: one no active timer has
freshTimerId(ts) == CHOOSE i \in 1..(MaxTimers + 1) : i \notin DOMAIN ts
                                                /\ \A j \in 1..(i - 1) : j \in DOMAIN ts

\* stopAutoRefresh without the call of clearInterval
stopAutoRefresh_KeepsTimer(s) == [id |-> NullId, timers |-> s.timers]

\* app.js:261-266
stopAutoRefresh(s) ==
    IF s.id # NullId
    THEN [id |-> NullId, timers |-> clearInterval(s.timers, s.id)]
    ELSE s

\* startAutoRefresh without the call of stopAutoRefresh
startAutoRefresh_NoStop(s) ==
    LET id == freshTimerId(s.timers)
    IN  [id |-> id, timers |-> s.timers @@ (id :> RefreshIntervalMs)]

\* app.js:247-259
startAutoRefresh(s) ==
    LET stopped == stopAutoRefresh(s)
        id == freshTimerId(stopped.timers)
    IN  [id |-> id, timers |-> stopped.timers @@ (id :> RefreshIntervalMs)]

\* app.js:311-317
toggleHandler(checked, s) == IF checked THEN startAutoRefresh(s) ELSE stopAutoRefresh(s)

(***************************************************************************)
(* fetchAndRenderPrice, app.js:53-151.  Its options, as each caller passes *)
(* them:                                                                   *)
(***************************************************************************)
\* app.js:336-339
LoadOptions == [disableButton |-> FALSE, showLoading |-> TRUE]
\* app.js:295-300
ClickOptions == [disableButton |-> TRUE, showLoading |-> TRUE]
\* the options fetchAndRenderPrice takes when called with none (app.js:53-56)
ChangeOptions_Defaults == [disableButton |-> TRUE, showLoading |-> TRUE]
TickOptions_Defaults == [disableButton |-> TRUE, showLoading |-> TRUE]

\* app.js:303-308
ChangeOptions == [disableButton |-> FALSE, showLoading |-> TRUE]
\* app.js:253-258
TickOptions == [disableButton |-> FALSE, showLoading |-> FALSE]

\* Invocation with the fallback of app.js:58 and 61 taken whatever is selected
Invocation_DefaultAsset(id, options, trigger, assetValue) ==
    [id |-> id, trigger |-> trigger,
     disableButton |-> options.disableButton, showLoading |-> options.showLoading,
     assetId |-> DefaultAsset, assetLabel |-> OptionLabel(DefaultAsset),
     url |-> buildApiUrl(DefaultAsset)]

\* app.js:57-65 and 79-80: the invocation as it is suspended at `await fetch(apiUrl)`.
\* (While it is suspended at `await response.json()` it has changed nothing yet
\* and holds the same values: the two awaits of a request are one suspension.)
Invocation(id, options, trigger, assetValue) ==
    [id |-> id, trigger |-> trigger,
     disableButton |-> options.disableButton, showLoading |-> options.showLoading,
     assetId |-> assetValue, assetLabel |-> OptionLabel(assetValue),
     url |-> buildApiUrl(assetValue)]

\* disabledAfterStart without the assignment of app.js:69
disabledAfterStart_Never(options, current) == current

\* app.js:68-71
disabledAfterStart(options, current) == IF options.disableButton THEN TRUE ELSE current
textAfterStart(options, current) == IF options.disableButton THEN BusyButtonText ELSE current
\* app.js:74-76
boxAfterStart(options, assetLabel, current) ==
    IF options.showLoading THEN LoadingBox(assetLabel) ELSE current

\* The synchronous part of an invocation, up to its first await.
startFetch(options, trigger, assetValue) ==
    LET inv == Invocation(issued + 1, options, trigger, assetValue)
    IN  /\ issued' = issued + 1
        /\ inflight' = inflight @@ (inv.id :> inv)
        /\ buttonDisabled' = disabledAfterStart(options, buttonDisabled)
        /\ buttonText' = textAfterStart(options, buttonText)
        /\ resultBox' = boxAfterStart(options, inv.assetLabel, resultBox)

\* whether another invocation may start, under the bounds of the run
mayStart(maxIssued, maxOutstanding) ==
    issued < maxIssued /\ Cardinality(DOMAIN inflight) < maxOutstanding

\* catches with only the rejection of the fetch promise handled
catches_TransportOnly(cause) == cause = "transport"

\* app.js:137: catch (error) catches whatever the try block throws
catches(cause) == TRUE

\* restoresButton with the restoration at the end of the try block
restoresButton_OnSuccessOnly(f, outcome) == f.disableButton /\ outcome = "success"

\* app.js:146: the finally block restores the button when the invocation disabled it
restoresButton(f, outcome) == f.disableButton

\* app.js:144-150, and the invocation's end
finish(f, outcome, cause, entry) ==
    /\ inflight' = [i \in DOMAIN inflight \ {f.id} |-> inflight[i]]
    /\ IF restoresButton(f, outcome)
       THEN buttonDisabled' = FALSE /\ buttonText' = IdleButtonText
       ELSE UNCHANGED <<buttonDisabled, buttonText>>
    /\ lastDone' = [outcome |-> outcome, cause |-> cause, entry |-> entry,
                    restored |-> IF restoresButton(f, outcome) THEN 1 ELSE 0]

\* catchBlock without the assignment of app.js:140-143
catchBlock_KeepsDisplay(f, cause) ==
    /\ UNCHANGED <<resultBox, uncaught>>
    /\ finish(f, "failure", cause, AbsentEntry)

\* app.js:137-143: an exception thrown in the try block
catchBlock(f, cause) ==
    /\ IF catches(cause)
       THEN resultBox' = ErrorBox /\ UNCHANGED uncaught
       ELSE UNCHANGED resultBox /\ uncaught' = TRUE
    /\ finish(f, "failure", cause, AbsentEntry)

\* extractPrices reading the entry of the default asset, whatever was requested
extractPrices_DefaultKey(data, assetId) ==
    [eur |-> data[DefaultAsset].eur, usd |-> data[DefaultAsset].usd]

\* app.js:98-99
extractPrices(data, assetId) == [eur |-> data[assetId].eur, usd |-> data[assetId].usd]
\* extractChanges reading the entry of the default asset, whatever was requested
extractChanges_DefaultKey(data, assetId) ==
    [eur |-> data[DefaultAsset].eur_24h_change, usd |-> data[DefaultAsset].usd_24h_change]

\* app.js:101-102
extractChanges(data, assetId) ==
    [eur |-> data[assetId].eur_24h_change, usd |-> data[assetId].usd_24h_change]

NoDone == [outcome |-> "none", cause |-> "none", entry |-> AbsentEntry, restored |-> 0]

(***************************************************************************)
(* The state once the script has run, app.js:15-33 and 292-339: the page   *)
(* as served, the listeners registered, and the page-load invocation       *)
(* suspended at its fetch.                                                 *)
(***************************************************************************)
Init ==
    /\ selected = DefaultAsset
    /\ buttonDisabled = disabledAfterStart(LoadOptions, FALSE)
    /\ buttonText = textAfterStart(LoadOptions, IdleButtonText)
    /\ resultBox = boxAfterStart(LoadOptions, OptionLabel(DefaultAsset), EmptyBox)
    /\ autoRefreshIntervalId = NullId
    /\ timers = << >>
    /\ priceChart = NoChart
    /\ chartLabels = << >>
    /\ chartValuesEur = << >>
    /\ chartValuesUsd = << >>
    /\ lastEurPrice = Null
    /\ lastUsdPrice = Null
    /\ amountValue = << >>
    /\ portfolioResult = NoPortfolioText
    /\ inflight = (1 :> Invocation(1, LoadOptions, "load", DefaultAsset))
    /\ issued = 1
    /\ now = NowAtLoad
    /\ minutes = 0
    /\ sinceTick = RefreshIntervalMs
    /\ lastDone = NoDone
    /\ successLog = << >>
    /\ uncaught = FALSE

(***************************************************************************)
(* The events of the page.  maxIssued and maxOutstanding are the bounds of *)
(* the run on the invocations of fetchAndRenderPrice.                      *)
(***************************************************************************)
chartVars == <<priceChart, chartLabels, chartValuesEur, chartValuesUsd>>
priceVars == <<lastEurPrice, lastUsdPrice>>
timerVars == <<autoRefreshIntervalId, timers, sinceTick>>
clockVars == <<now, minutes>>
portfolioVars == <<amountValue, portfolioResult>>
doneVars == <<lastDone, uncaught>>

\* app.js:295-300; a disabled button fires no click
Click(maxIssued, maxOutstanding) ==
    /\ ~buttonDisabled
    /\ mayStart(maxIssued, maxOutstanding)
    /\ startFetch(ClickOptions, "click", selected)
    /\ UNCHANGED <<selected, chartVars, priceVars, timerVars, clockVars, portfolioVars,
                   doneVars, successLog>>

\* AssetChange with the fetch started for the option selected before the change
AssetChange_StaleSelection(a, maxIssued, maxOutstanding) ==
    /\ a # selected
    /\ mayStart(maxIssued, maxOutstanding)
    /\ selected' = a
    /\ startFetch(ChangeOptions, "change", selected)
    /\ UNCHANGED <<priceChart, chartLabels, chartValuesEur, chartValuesUsd,
                   lastEurPrice, lastUsdPrice, autoRefreshIntervalId, timers, sinceTick,
                   now, minutes, amountValue, portfolioResult, lastDone, uncaught,
                   successLog>>

\* app.js:303-308; the change event follows the selection of another option
AssetChange(a, maxIssued, maxOutstanding) ==
    /\ a # selected
    /\ mayStart(maxIssued, maxOutstanding)
    /\ selected' = a
    /\ startFetch(ChangeOptions, "change", selected')
    /\ UNCHANGED <<chartVars, priceVars, timerVars, clockVars, portfolioVars,
                   doneVars, successLog>>

\* app.js:311-317; the change event of the checkbox, event.target.checked = checked
ToggleChange(checked) ==
    LET s == toggleHandler(checked, [id |-> autoRefreshIntervalId, timers |-> timers])
    IN  /\ Cardinality(DOMAIN s.timers) <= MaxTimers
        /\ autoRefreshIntervalId' = s.id
        /\ timers' = s.timers
        /\ UNCHANGED <<selected, buttonDisabled, buttonText, resultBox, chartVars,
                       priceVars, portfolioVars, inflight, issued, clockVars, sinceTick,
                       doneVars, successLog>>

\* app.js:253-258; the interval timer id is due and runs its callback
Tick(id, maxIssued, maxOutstanding, track) ==
    /\ id \in DOMAIN timers
    /\ timers[id] = 0
    /\ mayStart(maxIssued, maxOutstanding)
    /\ timers' = [timers EXCEPT ![id] = RefreshIntervalMs]
    /\ startFetch(TickOptions, "tick", selected)
    /\ sinceTick' = IF track THEN 0 ELSE sinceTick
    /\ UNCHANGED <<selected, chartVars, priceVars, autoRefreshIntervalId, clockVars,
                   portfolioVars, doneVars, successLog>>

\* TimeStepMs pass; a timer that is due fires before any more time passes
AdvanceTime(track) ==
    /\ \A id \in DOMAIN timers : timers[id] >= TimeStepMs
    /\ DOMAIN timers # {} \/ (track /\ sinceTick < RefreshIntervalMs)
    /\ timers' = [id \in DOMAIN timers |-> timers[id] - TimeStepMs]
    /\ sinceTick' = IF ~track THEN sinceTick
                    ELSE IF sinceTick + TimeStepMs < RefreshIntervalMs
                    THEN sinceTick + TimeStepMs ELSE RefreshIntervalMs
    /\ UNCHANGED <<selected, buttonDisabled, buttonText, resultBox, chartVars, priceVars,
                   autoRefreshIntervalId, portfolioVars,
                   inflight, issued, clockVars, doneVars, successLog>>

\* the wall clock reaches the next minute
ClockMinute ==
    /\ minutes < MaxMinutes
    /\ minutes' = minutes + 1
    /\ now' = (now + 1) % MinutesPerDay
    /\ UNCHANGED <<selected, buttonDisabled, buttonText, resultBox, chartVars, priceVars,
                   timerVars, portfolioVars, inflight, issued, doneVars, successLog>>

\* app.js:322-332: the content of #portfolio-result after the input listener
inputListener(value, current) ==
    IF lastEurPrice = Null \/ lastUsdPrice = Null
    THEN LoadFirstText
    ELSE updatePortfolioValue(lastEurPrice, lastUsdPrice, value, current)

\* a keystroke leaves the text v in the amount field
AmountInput(v) ==
    /\ amountValue' = v
    /\ portfolioResult' = inputListener(v, portfolioResult)
    /\ UNCHANGED <<selected, buttonDisabled, buttonText, resultBox, chartVars, priceVars,
                   timerVars, inflight, issued, clockVars, doneVars, successLog>>

\* app.js:80: the fetch promise rejects (transport failure)
FetchRejected(id) ==
    /\ id \in DOMAIN inflight
    /\ catchBlock(inflight[id], "transport")
    /\ UNCHANGED <<selected, chartVars, priceVars, timerVars, clockVars, portfolioVars,
                   issued, successLog>>

\* app.js:80-84: the fetch promise resolves with a response whose status is not ok
BadStatus(id, status) ==
    /\ id \in DOMAIN inflight
    /\ ~responseOk(status)
    /\ catchBlock(inflight[id], "status")
    /\ UNCHANGED <<selected, chartVars, priceVars, timerVars, clockVars, portfolioVars,
                   issued, successLog>>

\* app.js:80-86: the response is ok and response.json() rejects (the body is no JSON)
JsonRejected(id) ==
    /\ id \in DOMAIN inflight
    /\ catchBlock(inflight[id], "json")
    /\ UNCHANGED <<selected, chartVars, priceVars, timerVars, clockVars, portfolioVars,
                   issued, successLog>>

\* app.js:80-136: the response is ok and response.json() resolves with the parsed
\* body data
JsonResolved(id, data) ==
    /\ id \in DOMAIN inflight
    /\ LET f == inflight[id]
           prices == extractPrices(data, f.assetId)
           changes == extractChanges(data, f.assetId)
           formattedTime == formatTime(now)
       IN  IF ~data[f.assetId].present
           THEN \* app.js:98: data[assetId] is undefined, reading .eur throws
                /\ catchBlock(f, "payload")
                /\ UNCHANGED <<priceVars, chartVars, portfolioResult, successLog>>
           ELSE \* app.js:105-106
                /\ lastEurPrice' = prices.eur
                /\ lastUsdPrice' = prices.usd
                /\ IF \E x \in {changes.eur, changes.usd, prices.eur, prices.usd} :
                          ~IsNumber(x)
                   THEN \* app.js:108-109, 121, 125: undefined.toFixed throws
                        /\ catchBlock(f, "payload")
                        /\ UNCHANGED <<chartVars, portfolioResult, successLog>>
                   ELSE /\ resultBox' = PriceBox(f.assetLabel, prices.eur, prices.usd,
                                                 changes.eur, changes.usd, formattedTime)
                        /\ updatePriceChart(f.assetLabel, formattedTime,
                                            prices.eur, prices.usd)
                        /\ portfolioResult' = updatePortfolioValue(
                               lastEurPrice', lastUsdPrice', amountValue, portfolioResult)
                        /\ successLog' = Append(successLog,
                               [label |-> formattedTime, eur |-> data[f.assetId].eur,
                                usd |-> data[f.assetId].usd])
                        /\ finish(f, "success", "none", data[f.assetId])
                        /\ UNCHANGED uncaught
    /\ UNCHANGED <<selected, timerVars, clockVars, amountValue, issued>>

(***************************************************************************)
(* Spec: the request / render / refresh cycle.  Every trigger of a fetch   *)
(* (page load, click, dropdown change, timer tick), the auto-refresh       *)
(* scheduler with the passing of time, and every outcome of a request, up  *)
(* to MaxFetches invocations.                                              *)
(***************************************************************************)
Resolve ==
    \/ \E id \in DOMAIN inflight : FetchRejected(id)
    \/ \E id \in DOMAIN inflight, status \in Statuses : BadStatus(id, status)
    \/ \E id \in DOMAIN inflight : JsonRejected(id)
    \/ \E id \in DOMAIN inflight, data \in Payloads : JsonResolved(id, data)

Next ==
    \/ Click(MaxFetches, MaxFetches)
    \/ \E a \in Assets : AssetChange(a, MaxFetches, MaxFetches)
    \/ \E checked \in BOOLEAN : ToggleChange(checked)
    \/ \E id \in DOMAIN timers : Tick(id, MaxFetches, MaxFetches, TRUE)
    \/ AdvanceTime(TRUE)
    \/ Resolve

Spec == Init /\ [][Next]_vars

(***************************************************************************)
(* SpecPortfolio: the portfolio calculator.  Keystrokes in the amount      *)
(* field, fetches started by clicks and dropdown changes, every outcome of *)
(* a request.                                                              *)
(***************************************************************************)
NextPortfolio ==
    \/ Click(MaxFetches, MaxFetches)
    \/ \E a \in Assets : AssetChange(a, MaxFetches, MaxFetches)
    \/ \E v \in AmountValues : AmountInput(v)
    \/ Resolve

SpecPortfolio == Init /\ [][NextPortfolio]_vars

(***************************************************************************)
(* SpecLong: a long session, for the rolling history to fill and evict.    *)
(* Up to LongFetches invocations, at most LongOutstanding at once, from    *)
(* the page load, clicks and timer ticks, on the default asset; a request  *)
(* fails in transport or by its status (at most LongFailures do), or gets  *)
(* LongPayload(n) as the n-th successful one.  The history variable        *)
(* sinceTick is not tracked.                                               *)
(***************************************************************************)
\* the invocations that ended in the failure path so far
failures == issued - Cardinality(DOMAIN inflight) - Len(successLog)

NextLong ==
    \/ Click(LongFetches, LongOutstanding)
    \/ \E checked \in BOOLEAN : ToggleChange(checked)
    \/ \E id \in DOMAIN timers : Tick(id, LongFetches, LongOutstanding, FALSE)
    \/ AdvanceTime(FALSE)
    \/ \E id \in DOMAIN inflight :
          failures < LongFailures /\ FetchRejected(id)
    \/ \E id \in DOMAIN inflight, status \in Statuses :
          failures < LongFailures /\ BadStatus(id, status)
    \/ \E id \in DOMAIN inflight : JsonResolved(id, LongPayload(Len(successLog) + 1))

SpecLong == Init /\ [][NextLong]_vars

(***************************************************************************)
(* FairSpec: clicks, dropdown changes and the wall clock, where every       *)
(* request that is outstanding is eventually settled (the transport        *)
(* answers or fails, and the body of an answer is eventually read).        *)
(***************************************************************************)
NextFair ==
    \/ Click(MaxFetches, MaxFetches)
    \/ \E a \in Assets : AssetChange(a, MaxFetches, MaxFetches)
    \/ ClockMinute
    \/ Resolve

FairSpec == Init /\ [][NextFair]_vars /\ WF_vars(Resolve)

(***************************************************************************)
(* Properties.                                                             *)
(***************************************************************************)
\* the step ends the invocation id
Ends(id) == id \in DOMAIN inflight /\ id \notin DOMAIN inflight'
\* the step starts an invocation
Starts == issued' = issued + 1
Min(a, b) == IF a < b THEN a ELSE b

\* C1: an invocation that ends on the failure path (transport failure, bad status,
\* or an exception while the response is processed) leaves lastEurPrice,
\* lastUsdPrice, chartLabels, chartValuesEur and chartValuesUsd as they were
\* just before it resolved.
C1_FailureKeepsPricesAndHistory ==
    [][ \A id \in DOMAIN inflight :
            (Ends(id) /\ lastDone'.outcome = "failure")
                => /\ lastEurPrice' = lastEurPrice
                   /\ lastUsdPrice' = lastUsdPrice
                   /\ chartLabels' = chartLabels
                   /\ chartValuesEur' = chartValuesEur
                   /\ chartValuesUsd' = chartValuesUsd ]_vars

\* C2: the rolling history never holds more than MAX_POINTS entries and is, in
\* order, the samples of the last MAX_POINTS successful fetches (all of them
\* while there are fewer): after the 21st successful fetch the 1st sample is
\* gone and the 2nd is at the head.
C2_HistoryBoundedFifo ==
    LET n == Len(successLog)
        k == Min(n, MAX_POINTS)
        kept == SubSeq(successLog, n - k + 1, n)
    IN  /\ Len(chartLabels) <= MAX_POINTS
        /\ Len(chartValuesEur) <= MAX_POINTS
        /\ Len(chartValuesUsd) <= MAX_POINTS
        /\ chartLabels = [i \in 1..k |-> kept[i].label]
        /\ chartValuesEur = [i \in 1..k |-> kept[i].eur]
        /\ chartValuesUsd = [i \in 1..k |-> kept[i].usd]

\* the 21st successful fetch has been rendered: the history is full, the 2nd
\* sample is at its head and the 1st sample is nowhere in it
C2_Witness ==
    /\ Len(successLog) = MAX_POINTS + 1
    /\ Len(chartValuesEur) = MAX_POINTS
    /\ chartValuesEur[1] = successLog[2].eur
    /\ \A i \in 1..Len(chartValuesEur) : chartValuesEur[i] # successLog[1].eur
    /\ failures > 0

\* C3: at most one interval timer is active, autoRefreshIntervalId is non-null
\* exactly when one is (and is its handle), and a timer-initiated fetch starts
\* no sooner than RefreshIntervalMs after the one before.
C3_OneTimer ==
    /\ [](/\ Cardinality(DOMAIN timers) <= 1
          /\ (autoRefreshIntervalId # NullId) <=> (DOMAIN timers # {})
          /\ autoRefreshIntervalId # NullId => DOMAIN timers = {autoRefreshIntervalId})
    /\ [][ (Starts /\ inflight'[issued'].trigger = "tick")
               => sinceTick >= RefreshIntervalMs ]_vars

\* auto-refresh was enabled anew after a tick, less than an interval ago, and
\* the timer that ticked is gone: one timer, a whole interval from firing
C3_Witness ==
    /\ autoRefreshIntervalId # NullId
    /\ 0 < sinceTick /\ sinceTick < RefreshIntervalMs
    /\ timers[autoRefreshIntervalId] = RefreshIntervalMs

\* C4: when an invocation that disabled the button ends, on any path, the
\* button is enabled with its idle label, restored once by that invocation;
\* and, every request being settled eventually, a disabled button is
\* eventually enabled again.
C4_ButtonRestored ==
    /\ [][ \A id \in DOMAIN inflight :
               (Ends(id) /\ inflight[id].disableButton)
                   => /\ ~buttonDisabled'
                      /\ buttonText' = IdleButtonText
                      /\ lastDone'.restored = 1 ]_vars
    /\ (buttonDisabled ~> ~buttonDisabled)

\* a click-initiated fetch got a response with a bad status, and the button
\* is enabled again
C4_Witness ==
    /\ lastDone.cause = "status"
    /\ lastDone.restored = 1
    /\ ~buttonDisabled
    /\ buttonText = IdleButtonText

\* C5: right after a fetch resolves successfully, lastEurPrice and lastUsdPrice
\* are the eur and usd fields of the body's entry under the asset identifier
\* the request's URL was built from.
C5_LastPricesFromResponse ==
    [][ \A id \in DOMAIN inflight :
            (Ends(id) /\ lastDone'.outcome = "success")
                => /\ inflight[id].url = buildApiUrl(inflight[id].assetId)
                   /\ lastEurPrice' = lastDone'.entry.eur
                   /\ lastUsdPrice' = lastDone'.entry.usd ]_vars

\* a request for ethereum succeeded with a body that holds both keys' entries
C5_Witness ==
    /\ lastDone.outcome = "success"
    /\ lastDone.entry = EntryB
    /\ lastEurPrice = EntryB.eur
    /\ lastUsdPrice = EntryB.usd
    /\ resultBox.kind = "price"
    /\ resultBox.label = OptionLabel("ethereum")

\* C6: while no fetch has completed successfully, the portfolio display shows
\* no computed value: it is as served, or the "load the price first" message
\* a keystroke puts there.
C6_LoadFirstBeforeSuccess ==
    Len(successLog) = 0 => portfolioResult \in {NoPortfolioText, LoadFirstText}

\* the amounts that are zero, negative, not numeric
ZeroAmounts == { <<"0">> }
NegativeAmounts == { <<"-", "1">> }
NonNumericAmounts == { <<>>, <<"a", "b", "c">> }

\* C7: with prices known, a recalculation (a keystroke, a successful fetch) for
\* an amount field that holds 0, a negative number or a non-numeric text puts
\* the enter-an-amount message in the portfolio display.
C7_InvalidAmountGuidance ==
    [][ ( /\ \/ amountValue' # amountValue
             \/ \E id \in DOMAIN inflight : Ends(id) /\ lastDone'.outcome = "success"
          /\ lastEurPrice' # Null /\ lastUsdPrice' # Null
          /\ amountValue' \in ZeroAmounts \cup NegativeAmounts \cup NonNumericAmounts )
            => portfolioResult' = EnterAmountText ]_vars

\* prices are known from a successful fetch, the amount is negative, and the
\* display holds the guidance message
C7_Witness ==
    /\ lastDone.outcome = "success"
    /\ lastEurPrice = EntryA.eur
    /\ amountValue \in NegativeAmounts
    /\ portfolioResult = EnterAmountText

\* C8: a fetch started by a timer tick leaves the button's disabled flag and
\* label as they are when it starts and when it ends, and never puts the
\* loading placeholder into the display region.
C8_TickFetchQuiet ==
    /\ [][ (Starts /\ inflight'[issued'].trigger = "tick")
               => /\ buttonDisabled' = buttonDisabled
                  /\ buttonText' = buttonText
                  /\ resultBox' = resultBox ]_vars
    /\ [][ \A id \in DOMAIN inflight :
               (Ends(id) /\ inflight[id].trigger = "tick")
                   => /\ buttonDisabled' = buttonDisabled
                      /\ buttonText' = buttonText
                      /\ resultBox'.kind # "loading" ]_vars

\* a tick started a fetch while a click-initiated one was outstanding: the
\* button is still disabled and the click's placeholder still shown
C8_Witness ==
    \E i, j \in DOMAIN inflight :
        /\ i < j
        /\ inflight[i].trigger = "click"
        /\ inflight[j].trigger = "tick"
        /\ buttonDisabled
        /\ buttonText = BusyButtonText
        /\ resultBox.kind = "loading"

\* C9: a change of the dropdown starts a request for the newly selected asset,
\* and that fetch leaves the button's disabled flag as it is when it starts and
\* when it ends.
C9_ChangeFetch ==
    /\ [][ selected' # selected
               => /\ Starts
                  /\ inflight'[issued'].trigger = "change"
                  /\ inflight'[issued'].assetId = selected'
                  /\ inflight'[issued'].url = buildApiUrl(selected')
                  /\ buttonDisabled' = buttonDisabled ]_vars
    /\ [][ \A id \in DOMAIN inflight :
               (Ends(id) /\ inflight[id].trigger = "change")
                   => buttonDisabled' = buttonDisabled ]_vars

\* the dropdown went to ethereum while a click-initiated fetch for bitcoin was
\* outstanding: a request for ethereum is outstanding, the button still disabled
C9_Witness ==
    \E i, j \in DOMAIN inflight :
        /\ i < j
        /\ inflight[i].trigger = "click"
        /\ inflight[i].assetId = "bitcoin"
        /\ inflight[j].trigger = "change"
        /\ inflight[j].assetId = "ethereum"
        /\ selected = "ethereum"
        /\ buttonDisabled

\* C10: every invocation that ends on the failure path, whatever the cause,
\* leaves the generic failure message in the display region; no exception
\* escapes fetchAndRenderPrice; and the button is not left disabled by it.
C10_FailureMessage ==
    /\ [][ \A id \in DOMAIN inflight :
               (Ends(id) /\ lastDone'.outcome = "failure")
                   => /\ resultBox' = ErrorBox
                      /\ ~uncaught'
                      /\ (inflight[id].disableButton => ~buttonDisabled') ]_vars
    /\ [](~uncaught)
    /\ [](buttonDisabled => \E id \in DOMAIN inflight : inflight[id].disableButton)

\* a body that lacks a field ended a fetch with the failure message
C10_Witness ==
    /\ lastDone.outcome = "failure"
    /\ lastDone.cause = "payload"
    /\ resultBox = ErrorBox
    /\ ~uncaught

\* the price block the invocation f renders from the entry it read, at `time`
OwnBox(f, entry, time) ==
    PriceBox(f.assetLabel, entry.eur, entry.usd,
             entry.eur_24h_change, entry.usd_24h_change, time)

\* C11: fetches that are outstanding at once apply their outcomes in the order
\* they resolve: each one that ends writes its own outcome (its price block and
\* the prices of the entry it read, or the failure message) over what is there,
\* so once none is outstanding the display and the last known prices are those
\* of the fetch that resolved last, whenever it was issued.
C11_LastResolvedWins ==
    /\ [][ \A id \in DOMAIN inflight :
               Ends(id)
                   => IF lastDone'.outcome = "success"
                      THEN /\ resultBox' = OwnBox(inflight[id], lastDone'.entry,
                                                  formatTime(now))
                           /\ lastEurPrice' = lastDone'.entry.eur
                           /\ lastUsdPrice' = lastDone'.entry.usd
                      ELSE resultBox' = ErrorBox ]_vars
    /\ []( (DOMAIN inflight = {} /\ lastDone.outcome = "success")
               => /\ resultBox.kind = "price"
                  /\ resultBox.eur = ToFixed2(lastDone.entry.eur, 100)
                  /\ resultBox.usd = ToFixed2(lastDone.entry.usd, 100)
                  /\ lastEurPrice = lastDone.entry.eur
                  /\ lastUsdPrice = lastDone.entry.usd )
    /\ []( (DOMAIN inflight = {} /\ lastDone.outcome = "failure")
               => resultBox = ErrorBox )

\* the page-load fetch for bitcoin and the fetch of a change to ethereum were
\* outstanding together, the later one resolved first and the page-load one
\* last: the display and the prices are bitcoin's, written by the first issued
C11_Witness ==
    /\ DOMAIN inflight = {}
    /\ issued = 2
    /\ selected = "ethereum"
    /\ Len(successLog) = 2
    /\ successLog[1].eur = EntryB.eur
    /\ successLog[2].eur = EntryA.eur
    /\ resultBox = OwnBox(Invocation(1, LoadOptions, "load", "bitcoin"), EntryA,
                          formatTime(now))
    /\ lastEurPrice = EntryA.eur
    /\ lastUsdPrice = EntryA.usd

\* C12: whenever the portfolio display shows a computed value, it is the value
\* of the text in the amount field at the current lastEurPrice and lastUsdPrice.
C12_PortfolioNeverStale ==
    portfolioResult.kind = "value"
        => portfolioResult = updatePortfolioValue(lastEurPrice, lastUsdPrice,
                                                  amountValue, portfolioResult)

\* the last sample of a history sequence, and the sequence before it
Last(a) == a[Len(a)]
Front(a) == SubSeq(a, 1, Len(a) - 1)
\* b is a with x appended, the items of a in their order before it, the oldest
\* of them dropped when a is full
Appended(a, b, x) ==
    /\ Len(b) = Min(Len(a) + 1, MAX_POINTS)
    /\ Last(b) = x
    /\ Front(b) = SubSeq(a, Len(a) - Len(b) + 2, Len(a))

\* C13: a fetch that resolves successfully appends one entry to each of the
\* three history sequences (its time label, its EUR price, its USD price), the
\* entries before it staying as they are and in their order; a fetch that
\* fails, and every other step, leaves the three sequences as they are.
C13_OneEntryPerSuccess ==
    [][ /\ \A id \in DOMAIN inflight :
              (Ends(id) /\ lastDone'.outcome = "success")
                  => /\ Appended(chartLabels, chartLabels', formatTime(now))
                     /\ Appended(chartValuesEur, chartValuesEur', lastDone'.entry.eur)
                     /\ Appended(chartValuesUsd, chartValuesUsd', lastDone'.entry.usd)
        /\ \A id \in DOMAIN inflight :
              (Ends(id) /\ lastDone'.outcome = "failure")
                  => UNCHANGED <<chartLabels, chartValuesEur, chartValuesUsd>>
        /\ (DOMAIN inflight' = DOMAIN inflight \/ Starts)
              => UNCHANGED <<chartLabels, chartValuesEur, chartValuesUsd>> ]_vars

\* the page-load fetch for bitcoin stayed outstanding while two fetches for
\* ethereum resolved, one successfully and one not, and then resolved itself:
\* the two that succeeded appended one entry each, in the order they
\* resolved, and the one that failed appended none
C13_Witness ==
    /\ DOMAIN inflight = {}
    /\ issued = 3
    /\ selected = "ethereum"
    /\ lastDone.entry = EntryA
    /\ chartValuesEur = <<EntryB.eur, EntryA.eur>>
    /\ chartValuesUsd = <<EntryB.usd, EntryA.usd>>
    /\ Len(chartLabels) = 2

\* the scheduler's state, as startAutoRefresh and stopAutoRefresh take it
scheduler == [id |-> autoRefreshIntervalId, timers |-> timers]

\* C14: stopAutoRefresh leaves no timer active, so that no timer tick starts a
\* fetch while auto-refresh is disabled (a tick that starts one is that of the
\* timer autoRefreshIntervalId names); stopAutoRefresh while disabled changes
\* nothing; and startAutoRefresh while disabled leaves exactly one timer
\* active, a whole interval from firing.
C14_StopStartAutoRefresh ==
    /\ [](autoRefreshIntervalId = NullId => DOMAIN timers = {})
    /\ [][ (autoRefreshIntervalId # NullId /\ autoRefreshIntervalId' = NullId)
               => DOMAIN timers' = {} ]_vars
    /\ [][ (Starts /\ inflight'[issued'].trigger = "tick")
               => /\ autoRefreshIntervalId # NullId
                  /\ autoRefreshIntervalId \in DOMAIN timers
                  /\ timers[autoRefreshIntervalId] = 0 ]_vars
    /\ [](autoRefreshIntervalId = NullId => stopAutoRefresh(scheduler) = scheduler)
    /\ [][ (autoRefreshIntervalId = NullId /\ autoRefreshIntervalId' # NullId)
               => /\ DOMAIN timers' = {autoRefreshIntervalId'}
                  /\ timers'[autoRefreshIntervalId'] = RefreshIntervalMs ]_vars

\* a tick started a fetch that is still outstanding, auto-refresh was then
\* disabled, and a whole interval has passed since with no timer active
C14_Witness ==
    /\ autoRefreshIntervalId = NullId
    /\ DOMAIN timers = {}
    /\ sinceTick = RefreshIntervalMs
    /\ \E id \in DOMAIN inflight : inflight[id].trigger = "tick"

\* the entry a well-formed body of Payloads holds under the key a
EntryOf(a) == IF a = DefaultAsset THEN EntryA ELSE EntryB

\* C15: an invocation takes the asset identifier and label of the option that
\* is selected when it starts, keeps them while it is outstanding, and, when
\* it resolves successfully, renders that label (in the price block and the
\* chart title) with the prices of the response's entry under that identifier,
\* whatever is selected by then.
C15_AssetOfRequestTime ==
    /\ [][ Starts
               => /\ inflight'[issued'].assetId = selected'
                  /\ inflight'[issued'].assetLabel = OptionLabel(selected')
                  /\ inflight'[issued'].url = buildApiUrl(selected') ]_vars
    /\ [][ \A id \in DOMAIN inflight \cap DOMAIN inflight' :
               inflight'[id] = inflight[id] ]_vars
    /\ [][ \A id \in DOMAIN inflight :
               (Ends(id) /\ lastDone'.outcome = "success")
                   => /\ resultBox' = OwnBox(inflight[id], EntryOf(inflight[id].assetId),
                                             formatTime(now))
                      /\ resultBox'.label = OptionLabel(inflight[id].assetId)
                      /\ priceChart'.title = chartTitle(OptionLabel(inflight[id].assetId))
                      /\ lastEurPrice' = EntryOf(inflight[id].assetId).eur
                      /\ lastUsdPrice' = EntryOf(inflight[id].assetId).usd ]_vars

\* the dropdown went to ethereum while the page-load fetch for bitcoin was
\* outstanding, and that fetch has resolved: the price block is bitcoin's
\* while ethereum is selected and its request still outstanding
C15_Witness ==
    /\ selected = "ethereum"
    /\ DOMAIN inflight = {2}
    /\ inflight[2].assetId = "ethereum"
    /\ resultBox.kind = "price"
    /\ resultBox.label = OptionLabel("bitcoin")
    /\ resultBox.eur = ToFixed2(EntryA.eur, 100)
    /\ lastEurPrice = EntryA.eur

\* the click-initiated invocations that are outstanding
clickFetches == { id \in DOMAIN inflight : inflight[id].trigger = "click" }

\* C16: at most one click-initiated fetch is outstanding, the button is disabled
\* (with its busy label) exactly while one is, and a click starts a fetch only
\* when the button is enabled.
C16_OneClickFetch ==
    /\ [](/\ Cardinality(clickFetches) <= 1
          /\ buttonDisabled <=> (clickFetches # {})
          /\ buttonDisabled => buttonText = BusyButtonText
          /\ ~buttonDisabled => buttonText = IdleButtonText)
    /\ [][ (Starts /\ inflight'[issued'].trigger = "click")
               => /\ ~buttonDisabled
                  /\ clickFetches = {} ]_vars

\* while the page-load fetch and a click-initiated fetch were outstanding a
\* timer tick started a third: three are outstanding, the button is disabled
C16_Witness ==
    /\ Cardinality(DOMAIN inflight) = 3
    /\ Cardinality(clickFetches) = 1
    /\ \E i \in clickFetches, j \in DOMAIN inflight :
           i < j /\ inflight[j].trigger \in {"tick", "change"}
    /\ buttonDisabled

\* the style the claim gives a 24h change
StyleOf(change) ==
    IF change.v > 0 \/ change.v = 0 THEN "change-positive" ELSE "change-negative"

\* C17: the price block a successful fetch has rendered styles the EUR change
\* by the sign of the EUR change and the USD change by the sign of the USD
\* change: positive when it is >= 0, zero included, negative when it is < 0.
C17_ChangeStyle ==
    (lastDone.outcome = "success" /\ resultBox.kind = "price")
        => /\ resultBox.eurClass = StyleOf(lastDone.entry.eur_24h_change)
           /\ resultBox.usdClass = StyleOf(lastDone.entry.usd_24h_change)
           /\ resultBox.eurChange = ToFixed2(lastDone.entry.eur_24h_change, 100)
           /\ resultBox.usdChange = ToFixed2(lastDone.entry.usd_24h_change, 100)

\* a fetch succeeded with an EUR change of exactly zero and a USD change
\* above zero: both are styled positive
C17_Witness ==
    /\ lastDone.outcome = "success"
    /\ lastDone.entry.eur_24h_change = Num(0)
    /\ resultBox.kind = "price"
    /\ resultBox.eurChange = "0.00"
    /\ resultBox.eurClass = "change-positive"
    /\ resultBox.usdClass = "change-positive"

\* C18, as stated: whenever no fetch is outstanding and a fetch has succeeded,
\* lastEurPrice and lastUsdPrice and the label of a price block in the display
\* are those of the asset selected in the dropdown.
C18_ShownAssetIsSelected ==
    (DOMAIN inflight = {} /\ Len(successLog) >= 1)
        => /\ lastEurPrice = EntryOf(selected).eur
           /\ lastUsdPrice = EntryOf(selected).usd
           /\ resultBox.kind = "price" => resultBox.label = OptionLabel(selected)

\* C18, amended: when the fetch that resolves last is the one issued last and
\* it succeeds, lastEurPrice, lastUsdPrice and the label of the price block
\* are those of the asset selected in the dropdown, and they stay so while no
\* fetch is outstanding.
C18_LastIssuedResolvedLast ==
    /\ [][ \A id \in DOMAIN inflight :
               ( /\ Ends(id)
                 /\ id = issued
                 /\ DOMAIN inflight' = {}
                 /\ lastDone'.outcome = "success" )
                   => /\ inflight[id].assetId = selected'
                      /\ resultBox'.kind = "price"
                      /\ resultBox'.label = OptionLabel(selected')
                      /\ lastEurPrice' = EntryOf(selected').eur
                      /\ lastUsdPrice' = EntryOf(selected').usd ]_vars
    /\ [][ (DOMAIN inflight = {} /\ DOMAIN inflight' = {})
               => UNCHANGED <<selected, resultBox, lastEurPrice, lastUsdPrice>> ]_vars

\* the fetch of a change to ethereum, the last issued, resolved last and
\* successfully: the price block and the prices are ethereum's
C18_Witness ==
    /\ DOMAIN inflight = {}
    /\ issued = 2
    /\ selected = "ethereum"
    /\ lastDone.outcome = "success"
    /\ lastDone.entry = EntryB
    /\ resultBox.kind = "price"
    /\ resultBox.label = OptionLabel("ethereum")
    /\ lastEurPrice = EntryB.eur
    /\ lastUsdPrice = EntryB.usd

\* C19: while no fetch is outstanding the display region holds a price block
\* or the failure message, never the loading placeholder: every invocation
\* that ends leaves one of the two there.
C19_NoPlaceholderWhenIdle ==
    /\ [](DOMAIN inflight = {} => resultBox.kind \in {"price", "error"})
    /\ [][ \A id \in DOMAIN inflight :
               Ends(id) => resultBox'.kind \in {"price", "error"} ]_vars

\* two fetches were issued and have ended, the last to end (one that left
\* the button alone) with a body that was not JSON: no fetch is outstanding
\* and the display holds the failure message
C19_Witness ==
    /\ DOMAIN inflight = {}
    /\ issued = 2
    /\ lastDone.cause = "json"
    /\ lastDone.restored = 0
    /\ resultBox = ErrorBox
    /\ ~buttonDisabled

\* C20: the three history sequences have the same length, and the label, the
\* EUR value and the USD value at each index are the sample of one successful
\* fetch.
C20_HistoryAligned ==
    /\ Len(chartLabels) = Len(chartValuesEur)
    /\ Len(chartValuesEur) = Len(chartValuesUsd)
    /\ \A i \in 1..Len(chartLabels) :
           \E k \in 1..Len(successLog) :
               successLog[k] = [label |-> chartLabels[i], eur |-> chartValuesEur[i],
                                usd |-> chartValuesUsd[i]]

\* 22 fetches have succeeded and two samples have been evicted: the three
\* sequences are full and hold the 3rd sample at the head, the 22nd at the end
C20_Witness ==
    /\ Len(successLog) = MAX_POINTS + 2
    /\ Len(chartLabels) = MAX_POINTS
    /\ Len(chartValuesEur) = MAX_POINTS
    /\ Len(chartValuesUsd) = MAX_POINTS
    /\ chartValuesEur[1] = successLog[3].eur
    /\ chartValuesUsd[1] = successLog[3].usd
    /\ chartValuesUsd[MAX_POINTS] = successLog[MAX_POINTS + 2].usd

====
